---- MODULE Spec2Model ----
(***************************************************************************)
(* Transaction submission and confirmation in agentipy.                    *)
(*                                                                         *)
(* One call of one entry point is modelled per behaviour: Init chooses the *)
(* entry point and its arguments, the actions are the steps of its code,   *)
(* and every network request draws its outcome from the outcomes the RPC   *)
(* or HTTP collaborator can produce (a value, or an exception).            *)
(***************************************************************************)
EXTENDS Integers, Sequences, FiniteSets, TLC

\* ------------------------------------------------------------------ bounds
MaxRetriesBound == 3      \* largest max_retries argument explored
MaxAccounts == 2          \* longest token_accounts list explored
MaxBalance == 2           \* largest token balance a balance read returns
MaxTradeIxs == 2          \* most instructions in the tx handed to send_tx

\* A status query that neither returns nor counts as a retry can repeat
\* without end; the model follows it this far past the attempt budget.
QueryCap == MaxRetriesBound + 2

VARIABLES
    entry,          \* the entry point this behaviour runs
    pc,             \* position in its code
    result,         \* "pending" until the call ends, then its outcome
    \* --- confirm_txn, PumpfunManager
    max_retries,    \* the max_retries argument
    retries,        \* confirm_txn: local `retries`
    queries,        \* confirm_txn: get_transaction calls made
    sleeps,         \* confirm_txn: time.sleep calls made
    firstRecord,    \* confirm_txn: response of the first query that found a record
    afterRecord,    \* confirm_txn: queries and sleeps made after that query
    attempt,        \* PumpfunManager: loop variable of the current retry loop
    packable,       \* PumpfunManager: the amounts fit struct.pack("<Q", ..)
    broadcasts,     \* PumpfunManager: send_transaction calls for the trade tx
    accepted,       \* PumpfunManager: ... of which returned a signature
    lateBroadcasts, \* PumpfunManager: trade broadcasts made after one was accepted
    confirmSeen,    \* outcome of the last confirm_transaction call
    waits,          \* PumpfunManager: asyncio.sleep durations, in order
    \* --- the transaction being assembled and submitted
    netlog,         \* requests and signing steps of the current call, in order
    succeeded,      \* the steps of netlog that returned normally
    instrs,         \* instruction list of the transaction
    txSig,          \* signature returned by the broadcast (0: none)
    confirmSig,     \* signature the confirmation was queried for (0: none)
    \* --- BurnManager
    nAccounts,      \* len(token_accounts)
    idx,            \* accounts taken from the list so far
    balance,        \* token_balance of the current account
    fetchCount,     \* get_latest_blockhash calls that returned
    fetches,        \* per returned fetch: the account and the broadcasts before it
    txAnchor,       \* transaction.recent_blockhash, as the number of its fetch
    sent,           \* send_transaction calls: account and anchor of the tx
    innerRaised,    \* accounts whose burn_and_close_account call raised
    \* --- PumpfunManager, continued
    ataSent,        \* buy_token: send_transaction calls for create_ata_tx that returned
    slipBps,        \* the slippage argument, in 1/10000 (slippage = 1.0 is 10000)
    \* --- pure functions (derivation, pricing)
    fn,             \* the function applied ("none" while an entry point runs)
    args,           \* its arguments
    out,            \* its outcome: [ok |-> it returned, val |-> what it returned]
    calls           \* the calls finished so far, in order: [fn, args, out]

confirmVars == <<retries, queries, sleeps, firstRecord, afterRecord>>
pumpVars    == <<attempt, packable, slipBps, broadcasts, accepted, lateBroadcasts, waits,
                 ataSent>>
txVars      == <<netlog, succeeded, instrs, txSig, confirmSig>>
burnVars    == <<nAccounts, idx, balance, fetchCount, fetches, txAnchor, sent, innerRaised>>
vars == <<entry, pc, result, max_retries, retries, queries, sleeps, firstRecord,
          afterRecord, attempt, packable, broadcasts, accepted, lateBroadcasts,
          confirmSeen, waits, netlog, succeeded, instrs, txSig, confirmSig,
          nAccounts, idx, balance, fetchCount, fetches, txAnchor, sent, innerRaised,
          slipBps, fn, args, out, calls, ataSent>>
fnVars == <<fn, args, out, calls>>

ConfirmEntries == {"confirm_txn_raydium", "confirm_txn_moonshot"}
PumpEntries    == {"buy_token", "sell_token"}
SubmitEntries  == {"send_tx", "sign_and_send_transaction", "trade"}
BurnEntries    == {"process_multiple_accounts"}
MoonshotEntries == {"moonshot_buy", "moonshot_sell"}
RaydiumEntries == {"buy_with_raydium", "sell_with_raydium"}
Entries == ConfirmEntries \cup PumpEntries \cup SubmitEntries \cup BurnEntries
             \cup MoonshotEntries \cup RaydiumEntries

Range(s) == {s[i] : i \in 1..Len(s)}
Ix(kind, amount) == [kind |-> kind, amount |-> amount]

\* ------------------------------------------------------------ confirm_txn
\* What one get_transaction call can find: no ledger record (the attribute
\* access on the empty value raises), a record whose err is None, a record
\* with a truthy err, or a record whose err is not None but falsy.
Responses == {"norecord", "ok", "err", "falsy"}

\* `retries = 1` (Raydium) and `retries = 0` (Moonshot)
InitialRetries(e) == IF e = "confirm_txn_raydium" THEN 1 ELSE 0

\* The body of the try block and its except clause, as the branch taken.
OnResponse(resp) ==
    CASE resp = "norecord" -> "retry"          \* except: retries += 1; sleep
      [] resp = "ok"       -> "return_true"    \* err is None
      [] resp = "err"      -> "return_false"   \* if txn_json['err']:
      [] resp = "falsy"    -> "loop"           \* neither test passes

\* `return None` after the while loop
ExhaustedResultFalse == "False"

ExhaustedResult == "None"

StartPc(e) ==
    CASE e \in ConfirmEntries -> "poll"
      [] e = "buy_token"      -> "pump_curve"
      [] e = "sell_token"     -> "pump_balance"
      [] e = "send_tx"        -> "tx_blockhash"
      [] e = "sign_and_send_transaction" -> "sas_blockhash"
      [] e = "trade"          -> "trade_quote"
      [] e \in BurnEntries    -> "burn_loop"
      [] e \in MoonshotEntries -> "moon_quote"
      [] e = "buy_with_raydium"  -> "ray_pool_keys"
      [] e = "sell_with_raydium" -> "ray_percentage"

TradeTx(n) == [i \in 1..n |-> Ix("trade", 0)]

\* Values of the `slippage` argument of buy_token / sell_token (a float; no
\* statement of either function restricts it): -50 %, 0, 25 %, 100 %, 150 %.
SlippageInputs == {-5000, 0, 2500, 10000, 15000}

\* Outcome of a function call: it returned val, or it raised.
Returned(v) == [ok |-> TRUE, val |-> v]
Raised == [ok |-> FALSE, val |-> 0]
NoOutcome == [ok |-> FALSE, val |-> -1]

Init ==
    /\ entry \in Entries
    /\ pc = StartPc(entry)
    /\ result = "pending"
    /\ max_retries \in (IF entry \in ConfirmEntries \cup PumpEntries
                          THEN 0..MaxRetriesBound ELSE {0})
    /\ retries = InitialRetries(entry)
    /\ queries = 0
    /\ sleeps = 0
    /\ firstRecord = "none"
    /\ afterRecord = 0
    /\ attempt = 0
    /\ slipBps \in (IF entry \in PumpEntries THEN SlippageInputs ELSE {0})
    /\ packable \in (IF entry \in PumpEntries \cup MoonshotEntries \cup RaydiumEntries
                         /\ ~(entry = "sell_token" /\ slipBps = 10000)
                      THEN BOOLEAN ELSE {TRUE})
    /\ broadcasts = 0
    /\ accepted = 0
    /\ lateBroadcasts = 0
    /\ ataSent = 0
    /\ confirmSeen = "none"
    /\ waits = <<>>
    /\ netlog = <<>>
    /\ succeeded = {}
    /\ instrs \in (IF entry = "send_tx" THEN {TradeTx(n) : n \in 1..MaxTradeIxs}
                   ELSE IF entry \in SubmitEntries THEN {TradeTx(1)}
                   ELSE {<<>>})
    /\ txSig = 0
    /\ confirmSig = 0
    /\ nAccounts \in (IF entry \in BurnEntries THEN 0..MaxAccounts ELSE {0})
    /\ idx = 0
    /\ balance = 0
    /\ fetchCount = 0
    /\ fetches = <<>>
    /\ txAnchor = 0
    /\ sent = <<>>
    /\ innerRaised = {}
    /\ fn = "none"
    /\ args = <<>>
    /\ out = NoOutcome
    /\ calls = <<>>

\* One iteration of `while retries < max_retries:`.
ConfirmPoll ==
    /\ entry \in ConfirmEntries
    /\ pc = "poll"
    /\ retries < max_retries
    /\ queries < QueryCap
    /\ \E resp \in Responses :
         LET branch == OnResponse(resp) IN
         /\ queries' = queries + 1
         /\ firstRecord' = IF firstRecord = "none" /\ resp # "norecord"
                             THEN resp ELSE firstRecord
         /\ sleeps' = IF branch = "retry" THEN sleeps + 1 ELSE sleeps
         /\ afterRecord' = IF firstRecord # "none"
                             THEN afterRecord + 1 + (IF branch = "retry" THEN 1 ELSE 0)
                             ELSE afterRecord
         /\ retries' = IF branch = "retry" THEN retries + 1 ELSE retries
         /\ result' = CASE branch = "return_true"  -> "True"
                        [] branch = "return_false" -> "False"
                        [] OTHER -> result
         /\ pc' = IF branch \in {"return_true", "return_false"} THEN "done" ELSE "poll"
    /\ UNCHANGED <<fn, args, out, calls, entry, max_retries, confirmSeen>>
    /\ UNCHANGED <<pumpVars, txVars, burnVars>>

\* The loop condition fails: `return None`.
ConfirmExhausted ==
    /\ entry \in ConfirmEntries
    /\ pc = "poll"
    /\ ~(retries < max_retries)
    /\ result' = ExhaustedResult
    /\ pc' = "done"
    /\ UNCHANGED <<fn, args, out, calls, entry, max_retries, confirmSeen>>
    /\ UNCHANGED <<confirmVars, pumpVars, txVars, burnVars>>

\* --------------------------------------------------------- PumpfunManager
\* except-clause of both retry loops: `if attempt < max_retries - 1:
\* wait_time = 2 ** attempt; await asyncio.sleep(wait_time)`
PumpBackoffAlways(loop, att, maxr) == <<[loop |-> loop, secs |-> 2^att]>>

PumpBackoff(loop, att, maxr) ==
    IF att < maxr - 1 THEN <<[loop |-> loop, secs |-> 2^att]>> ELSE <<>>

\* struct.pack("<Q", x) raises struct.error for an amount outside 0 .. 2^64 - 1
\* or one that is not an int.
PackRaises(fits) == ~fits

\* An exception inside the try of the trade loop: back off, next iteration.
TradeExcept ==
    /\ waits' = waits \o PumpBackoff("trade", attempt, max_retries)
    /\ attempt' = attempt + 1
    /\ pc' = "pump_build"
    /\ result' = result

\* sell_token: get_token_balance, outside any try; `if token_balance == 0: return`
PumpSellBalance ==
    /\ entry = "sell_token"
    /\ pc = "pump_balance"
    /\ \E o \in {"zero", "positive", "raise"} :
         /\ pc' = IF o = "positive" THEN "pump_curve" ELSE "done"
         /\ result' = CASE o = "zero"  -> "None"
                        [] o = "raise" -> "raised"
                        [] OTHER       -> result
    /\ UNCHANGED <<fn, args, out, calls, entry, max_retries, confirmSeen>>
    /\ UNCHANGED <<confirmVars, pumpVars, txVars, burnVars>>

\* get_pump_curve_state and calculate_pump_curve_price, outside any try:
\* a missing account, a wrong discriminator or a non-positive reserve raises.
PumpCurveState ==
    /\ entry \in PumpEntries
    /\ pc = "pump_curve"
    /\ \E o \in {"ok", "raise"} :
         /\ pc' = IF o = "raise" THEN "done"
                  ELSE IF entry = "buy_token" THEN "pump_ata" ELSE "pump_build"
         /\ result' = IF o = "raise" THEN "raised" ELSE result
    /\ UNCHANGED <<fn, args, out, calls, entry, max_retries, confirmSeen>>
    /\ UNCHANGED <<confirmVars, pumpVars, txVars, burnVars>>

\* buy_token: one iteration of `for ata_attempt in range(max_retries)`.
PumpAtaAttempt ==
    /\ entry = "buy_token"
    /\ pc = "pump_ata"
    /\ attempt < max_retries
    /\ \E o \in {"exists", "created", "fail"} :
         IF o = "fail"
           THEN /\ waits' = waits \o PumpBackoff("ata", attempt, max_retries)
                /\ ataSent' = ataSent
                /\ attempt' = IF attempt < max_retries - 1 THEN attempt + 1 ELSE attempt
                /\ pc' = IF attempt < max_retries - 1 THEN "pump_ata" ELSE "done"
                /\ result' = IF attempt < max_retries - 1 THEN result ELSE "None"
           ELSE /\ waits' = waits              \* break
                /\ ataSent' = IF o = "created" THEN ataSent + 1 ELSE ataSent
                /\ attempt' = 0
                /\ pc' = "pump_build"
                /\ result' = result
    /\ UNCHANGED <<fn, args, out, calls, entry, max_retries, confirmSeen>>
    /\ UNCHANGED <<packable, slipBps, broadcasts, accepted, lateBroadcasts>>
    /\ UNCHANGED <<confirmVars, txVars, burnVars>>

\* buy_token with max_retries <= 0: the ATA loop body never runs.
PumpAtaSkipped ==
    /\ entry = "buy_token"
    /\ pc = "pump_ata"
    /\ ~(attempt < max_retries)
    /\ pc' = "pump_build"
    /\ UNCHANGED <<fn, args, out, calls, entry, result, max_retries, confirmSeen>>
    /\ UNCHANGED <<confirmVars, pumpVars, txVars, burnVars>>

\* Trade loop, first half of the try: pack the payload, fetch the blockhash.
PumpBuild ==
    /\ entry \in PumpEntries
    /\ pc = "pump_build"
    /\ attempt < max_retries
    /\ IF PackRaises(packable)
         THEN TradeExcept                       \* struct.error
         ELSE \E o \in {"ok", "raise"} :        \* get_latest_blockhash
                IF o = "raise" THEN TradeExcept
                ELSE /\ pc' = "pump_send"
                     /\ UNCHANGED <<waits, attempt, result>>
    /\ UNCHANGED <<fn, args, out, calls, entry, max_retries, confirmSeen>>
    /\ UNCHANGED <<packable, slipBps, broadcasts, accepted, lateBroadcasts, ataSent>>
    /\ UNCHANGED <<confirmVars, txVars, burnVars>>

\* client.send_transaction(transaction, payer, ...)
PumpSend ==
    /\ entry \in PumpEntries
    /\ pc = "pump_send"
    /\ broadcasts' = broadcasts + 1
    /\ lateBroadcasts' = IF accepted > 0 THEN lateBroadcasts + 1 ELSE lateBroadcasts
    /\ \E o \in {"accepted", "raise"} :
         IF o = "raise"
           THEN TradeExcept /\ accepted' = accepted
           ELSE /\ accepted' = accepted + 1
                /\ pc' = "pump_confirm"
                /\ UNCHANGED <<waits, attempt, result>>
    /\ UNCHANGED <<fn, args, out, calls, entry, max_retries, confirmSeen, packable, slipBps, ataSent>>
    /\ UNCHANGED <<confirmVars, txVars, burnVars>>

\* client.confirm_transaction(tx.value, ...); `return tx.value`
PumpConfirm ==
    /\ entry \in PumpEntries
    /\ pc = "pump_confirm"
    /\ \E o \in {"ok", "err", "raise"} :
         /\ confirmSeen' = o
         /\ IF o = "raise"
              THEN TradeExcept
              ELSE /\ result' = "sig"
                   /\ pc' = "done"
                   /\ UNCHANGED <<waits, attempt>>
    /\ UNCHANGED <<fn, args, out, calls, entry, max_retries>>
    /\ UNCHANGED <<packable, slipBps, broadcasts, accepted, lateBroadcasts, ataSent>>
    /\ UNCHANGED <<confirmVars, txVars, burnVars>>

\* The trade loop runs out of iterations: the function ends without a return.
PumpLoopEnd ==
    /\ entry \in PumpEntries
    /\ pc = "pump_build"
    /\ ~(attempt < max_retries)
    /\ result' = "None"
    /\ pc' = "done"
    /\ UNCHANGED <<fn, args, out, calls, entry, max_retries, confirmSeen>>
    /\ UNCHANGED <<confirmVars, pumpVars, txVars, burnVars>>

\* -------------------------------------------------------- MoonshotManager
\* A call that passes fewer positional arguments than the function requires
\* raises TypeError before the function body runs.
MissingArgument(required, supplied) == supplied < required

\* `except Exception as e: logger.error(...)`: the function ends, returning
\* None.
MoonshotExcept ==
    /\ pc' = "done"
    /\ result' = "None"

\* buy: get_tokens_by_collateral_amount and `if not amount: return`;
\* sell: the token balance, `if token_balance == 0: return`, and
\* get_collateral_amount_by_tokens.
MoonshotQuote ==
    /\ entry \in MoonshotEntries
    /\ pc = "moon_quote"
    /\ \E o \in {"ok", "empty", "raise"} :
         IF o = "ok" THEN pc' = "moon_build" /\ result' = result
                     ELSE MoonshotExcept
    /\ UNCHANGED <<fn, args, out, calls, entry, max_retries, confirmSeen>>
    /\ UNCHANGED <<confirmVars, pumpVars, txVars, burnVars>>

\* The payload is packed, then the message is compiled on a fresh blockhash.
MoonshotBuild ==
    /\ entry \in MoonshotEntries
    /\ pc = "moon_build"
    /\ IF PackRaises(packable)
         THEN MoonshotExcept
         ELSE \E o \in {"ok", "raise"} :
                IF o = "ok" THEN pc' = "moon_send" /\ result' = result
                            ELSE MoonshotExcept
    /\ UNCHANGED <<fn, args, out, calls, entry, max_retries, confirmSeen>>
    /\ UNCHANGED <<confirmVars, pumpVars, txVars, burnVars>>

\* txn_sig = client.send_transaction(transaction, ...).value
MoonshotSend ==
    /\ entry \in MoonshotEntries
    /\ pc = "moon_send"
    /\ broadcasts' = broadcasts + 1
    /\ \E o \in {"accepted", "raise"} :
         IF o = "accepted"
           THEN accepted' = accepted + 1 /\ pc' = "moon_confirm" /\ result' = result
           ELSE accepted' = accepted /\ MoonshotExcept
    /\ UNCHANGED <<fn, args, out, calls, entry, max_retries, confirmSeen>>
    /\ UNCHANGED <<attempt, packable, slipBps, lateBroadcasts, waits, ataSent>>
    /\ UNCHANGED <<confirmVars, txVars, burnVars>>

\* `confirm = confirm_txn(txn_sig)`: confirm_txn(agent, txn_sig, ...) needs two
\* positional arguments and gets one; the value would only be logged.
MoonshotConfirm ==
    /\ entry \in MoonshotEntries
    /\ pc = "moon_confirm"
    /\ IF MissingArgument(2, 1)
         THEN MoonshotExcept
         ELSE pc' = "done" /\ result' = "None"
    /\ UNCHANGED <<fn, args, out, calls, entry, max_retries, confirmSeen>>
    /\ UNCHANGED <<confirmVars, pumpVars, txVars, burnVars>>

\* --------------------------------------------------------- RaydiumManager
\* An except clause that only logged and fell off the end of the function.
RaydiumExceptNone ==
    /\ pc' = "done"
    /\ result' = "None"

\* `except Exception as e: logger.error(...); return False`
RaydiumExcept ==
    /\ pc' = "done"
    /\ result' = "False"

\* sell_with_raydium: `if not (1 <= percentage <= 100): return False`
RaydiumPercentage ==
    /\ entry = "sell_with_raydium"
    /\ pc = "ray_percentage"
    /\ \E inRange \in BOOLEAN :
         IF inRange THEN pc' = "ray_pool_keys" /\ result' = result
                    ELSE pc' = "done" /\ result' = "False"
    /\ UNCHANGED <<fn, args, out, calls, entry, max_retries, confirmSeen>>
    /\ UNCHANGED <<confirmVars, pumpVars, txVars, burnVars>>

\* `pool_keys = fetch_pool_keys(pair_address)`: fetch_pool_keys(client,
\* pair_address) needs two positional arguments and gets one, so the call
\* raises and nothing after it in the try block runs.
RaydiumFetchPoolKeys ==
    /\ entry \in RaydiumEntries
    /\ pc = "ray_pool_keys"
    /\ IF MissingArgument(2, 1)
         THEN RaydiumExcept
         ELSE pc' = "ray_reserves" /\ result' = result
    /\ UNCHANGED <<fn, args, out, calls, entry, max_retries, confirmSeen>>
    /\ UNCHANGED <<confirmVars, pumpVars, txVars, burnVars>>

\* ------------------------------------------- send_tx.py and TradeManager
Signatures == {1, 2}

Log(ev, ok) ==
    /\ netlog' = Append(netlog, ev)
    /\ succeeded' = IF ok THEN succeeded \cup {ev} ELSE succeeded

Goto(next) ==
    /\ pc' = IF next = "raised" THEN "done" ELSE next
    /\ result' = IF next = "raised" THEN "raised" ELSE result

\* Every step of the three functions sits in one try whose except clause
\* re-raises: a step that raises ends the call, otherwise the next line runs.
AfterStepSwallow(next, outcome) == next

AfterStep(next, outcome) == IF outcome = "raise" THEN "raised" ELSE next

\* A request (or signing step) that returns or raises and changes nothing else.
SimpleStep(e, at, ev, next) ==
    /\ entry = e
    /\ pc = at
    /\ \E o \in {"ok", "raise"} :
         /\ Log(ev, o = "ok")
         /\ Goto(AfterStep(next, o))
    /\ UNCHANGED <<fn, args, out, calls, entry, max_retries, confirmSeen, instrs, txSig, confirmSig>>
    /\ UNCHANGED <<confirmVars, pumpVars, burnVars>>

\* get_latest_blockhash, then `recent_blockhash = ...` on the transaction
AnchorStep(e, at, next) ==
    /\ entry = e
    /\ pc = at
    /\ \E o \in {"ok", "raise"} :
         /\ Log("blockhash", o = "ok")
         /\ fetchCount' = IF o = "ok" THEN fetchCount + 1 ELSE fetchCount
         /\ fetches' = IF o = "ok"
                         THEN Append(fetches, [owner |-> 0, after |-> 0])
                         ELSE fetches
         /\ txAnchor' = IF o = "ok" THEN fetchCount + 1 ELSE txAnchor
         /\ Goto(AfterStep(next, o))
    /\ UNCHANGED <<fn, args, out, calls, entry, max_retries, confirmSeen, instrs, txSig, confirmSig>>
    /\ UNCHANGED <<nAccounts, idx, balance, sent, innerRaised>>
    /\ UNCHANGED <<confirmVars, pumpVars>>

\* send_raw_transaction / send_transaction: keeps the returned signature
BroadcastStep(e, at, next) ==
    /\ entry = e
    /\ pc = at
    /\ \E o \in {"ok", "raise"}, sig \in Signatures :
         /\ Log("broadcast", o = "ok")
         /\ txSig' = IF o = "ok" THEN sig ELSE txSig
         /\ Goto(AfterStep(next, o))
    /\ UNCHANGED <<fn, args, out, calls, entry, max_retries, confirmSeen, instrs, confirmSig>>
    /\ UNCHANGED <<confirmVars, pumpVars, burnVars>>

\* confirm_transaction(<the broadcast's signature>): returns the status, whose
\* err is None or the ledger's error, or raises (RPC failure, not confirmed in
\* time).  errRaises: the caller tests the returned err and raises on it.
ConfirmStep(e, at, errRaises) ==
    /\ entry = e
    /\ pc = at
    /\ \E o \in {"ok", "err", "raise"} :
         /\ Log("confirm", o # "raise")
         /\ confirmSig' = txSig
         /\ confirmSeen' = o
         /\ IF o = "raise" \/ (o = "err" /\ errRaises)
              THEN Goto(AfterStep("done", "raise"))
              ELSE /\ pc' = "done"
                   /\ result' = "sig"
    /\ UNCHANGED <<fn, args, out, calls, entry, max_retries, instrs, txSig>>
    /\ UNCHANGED <<confirmVars, pumpVars, burnVars>>

\* send_tx
SendTxBlockhash == AnchorStep("send_tx", "tx_blockhash", "tx_fees")

\* get_priority_fees (an HTTP POST) and `if fees.get("instructions"): tx.add(..)`
SendTxPriorityFees ==
    /\ entry = "send_tx"
    /\ pc = "tx_fees"
    /\ \E o \in {"instructions", "empty", "raise"} :
         /\ Log("http_fees", o # "raise")
         /\ instrs' = IF o = "instructions"
                        THEN Append(instrs, Ix("priority", 0))
                        ELSE instrs
         /\ Goto(AfterStep("tx_sign", o))
    /\ UNCHANGED <<fn, args, out, calls, entry, max_retries, confirmSeen, txSig, confirmSig>>
    /\ UNCHANGED <<confirmVars, pumpVars, burnVars>>

SendTxSign == SimpleStep("send_tx", "tx_sign", "sign", "tx_broadcast")

SendTxBroadcast == BroadcastStep("send_tx", "tx_broadcast", "tx_confirm")

\* `await ...confirm_transaction(tx_id, ...)`; `return tx_id`
SendTxConfirm == ConfirmStep("send_tx", "tx_confirm", FALSE)

\* sign_and_send_transaction
SasBlockhash == AnchorStep("sign_and_send_transaction", "sas_blockhash", "sas_sign")

SasSign == SimpleStep("sign_and_send_transaction", "sas_sign", "sign", "sas_send")

SasSend == BroadcastStep("sign_and_send_transaction", "sas_send", "sas_confirm")

\* `if confirmation.value.err: raise Exception(...)`; `return str(signature)`
SasConfirm == ConfirmStep("sign_and_send_transaction", "sas_confirm", TRUE)

\* TradeManager.trade: quote GET and swap POST (a non-200 status raises)
TradeQuote == SimpleStep("trade", "trade_quote", "http_quote", "trade_swap")

TradeSwap == SimpleStep("trade", "trade_swap", "http_swap", "trade_blockhash")

\* fetched for last_valid_block_height only; the transaction keeps its own
TradeBlockhash == SimpleStep("trade", "trade_blockhash", "blockhash", "trade_sign")

TradeSign == SimpleStep("trade", "trade_sign", "sign", "trade_send")

TradeSend == BroadcastStep("trade", "trade_send", "trade_confirm")

\* `await ...confirm_transaction(tx_id, ...)`; `return str(signature)`
TradeConfirm == ConfirmStep("trade", "trade_confirm", FALSE)

\* ------------------------------------------------------------ BurnManager
Balances == 0..MaxBalance

\* `recent_blockhash = client.get_latest_blockhash().value.blockhash` in each
\* call: the transaction gets the hash that call has just fetched.
BurnAnchorCached(previous, fresh) == IF previous # 0 THEN previous ELSE fresh

BurnAnchor(previous, fresh) == fresh

\* burn_and_close_account returns (or its exception is caught by the loop).
BurnReturnAbort ==
    /\ pc' = "done"
    /\ result' = "None"

BurnReturn ==
    /\ pc' = "burn_loop"
    /\ result' = result

\* process_multiple_accounts: `for token_account in token_accounts:` takes the
\* next account and calls burn_and_close_account, which starts a fresh call.
BurnNextAccount ==
    /\ entry \in BurnEntries
    /\ pc = "burn_loop"
    /\ idx < nAccounts
    /\ idx' = idx + 1
    /\ netlog' = <<>>
    /\ succeeded' = {}
    /\ instrs' = <<>>
    /\ balance' = 0
    /\ pc' = "burn_balance"
    /\ UNCHANGED <<fn, args, out, calls, entry, result, max_retries, confirmSeen, txSig, confirmSig>>
    /\ UNCHANGED <<nAccounts, fetchCount, fetches, txAnchor, sent, innerRaised>>
    /\ UNCHANGED <<confirmVars, pumpVars>>

\* The list is exhausted: process_multiple_accounts returns None.
BurnLoopEnd ==
    /\ entry \in BurnEntries
    /\ pc = "burn_loop"
    /\ ~(idx < nAccounts)
    /\ pc' = "done"
    /\ result' = "None"
    /\ UNCHANGED <<fn, args, out, calls, entry, max_retries, confirmSeen>>
    /\ UNCHANGED <<confirmVars, pumpVars, txVars, burnVars>>

\* get_token_account_balance in its own try; `except: ... return`
BurnBalance ==
    /\ entry \in BurnEntries
    /\ pc = "burn_balance"
    /\ \/ /\ Log("balance", FALSE)
          /\ BurnReturn
          /\ balance' = balance
       \/ \E b \in Balances :
            /\ Log("balance", TRUE)
            /\ balance' = b
            /\ pc' = "burn_blockhash"
            /\ result' = result
    /\ UNCHANGED <<fn, args, out, calls, entry, max_retries, confirmSeen, instrs, txSig, confirmSig>>
    /\ UNCHANGED <<nAccounts, idx, fetchCount, fetches, txAnchor, sent, innerRaised>>
    /\ UNCHANGED <<confirmVars, pumpVars>>

\* get_latest_blockhash, outside any try of burn_and_close_account: an
\* exception leaves the call and is caught by process_multiple_accounts.
BurnBlockhash ==
    /\ entry \in BurnEntries
    /\ pc = "burn_blockhash"
    /\ \E o \in {"ok", "raise"} :
         /\ Log("blockhash", o = "ok")
         /\ IF o = "raise"
              THEN /\ innerRaised' = innerRaised \cup {idx}
                   /\ BurnReturn
                   /\ UNCHANGED <<fetchCount, fetches, txAnchor>>
              ELSE /\ fetchCount' = fetchCount + 1
                   /\ fetches' = Append(fetches, [owner |-> idx, after |-> Len(sent)])
                   /\ txAnchor' = BurnAnchor(txAnchor, fetchCount + 1)
                   /\ innerRaised' = innerRaised
                   /\ pc' = IF balance > 0 THEN "burn_mint" ELSE "burn_assemble"
                   /\ result' = result
    /\ UNCHANGED <<fn, args, out, calls, entry, max_retries, confirmSeen, instrs, txSig, confirmSig>>
    /\ UNCHANGED <<nAccounts, idx, balance, sent>>
    /\ UNCHANGED <<confirmVars, pumpVars>>

\* `if token_balance > 0:` get_account_info_json_parsed for the mint, then
\* transaction.add(burn(... amount=token_balance)); `except: ... return`
BurnPrepareBurn ==
    /\ entry \in BurnEntries
    /\ pc = "burn_mint"
    /\ \E o \in {"ok", "raise"} :
         /\ Log("account_info", o = "ok")
         /\ IF o = "raise"
              THEN BurnReturn /\ instrs' = instrs
              ELSE /\ instrs' = Append(instrs, Ix("burn", balance))
                   /\ pc' = "burn_assemble"
                   /\ result' = result
    /\ UNCHANGED <<fn, args, out, calls, entry, max_retries, confirmSeen, txSig, confirmSig>>
    /\ UNCHANGED <<confirmVars, pumpVars, burnVars>>

\* transaction.add(set_compute_unit_price), .add(set_compute_unit_limit),
\* .add(close_account_instruction)
BurnClosingFirst(tx) == <<Ix("close", 0)>> \o tx \o <<Ix("priority", 0), Ix("priority", 0)>>

BurnClosing(tx) == tx \o <<Ix("priority", 0), Ix("priority", 0), Ix("close", 0)>>

BurnAssemble ==
    /\ entry \in BurnEntries
    /\ pc = "burn_assemble"
    /\ instrs' = BurnClosing(instrs)
    /\ pc' = "burn_sign"
    /\ UNCHANGED <<fn, args, out, calls, entry, result, max_retries, confirmSeen>>
    /\ UNCHANGED <<netlog, succeeded, txSig, confirmSig>>
    /\ UNCHANGED <<confirmVars, pumpVars, burnVars>>

\* transaction.sign(agent.wallet), first line of the last try
BurnSign ==
    /\ entry \in BurnEntries
    /\ pc = "burn_sign"
    /\ \E o \in {"ok", "raise"} :
         /\ Log("sign", o = "ok")
         /\ IF o = "raise" THEN BurnReturn
            ELSE pc' = "burn_send" /\ result' = result
    /\ UNCHANGED <<fn, args, out, calls, entry, max_retries, confirmSeen, instrs, txSig, confirmSig>>
    /\ UNCHANGED <<confirmVars, pumpVars, burnVars>>

\* client.send_transaction(...).value; an exception is logged; the call ends
BurnSend ==
    /\ entry \in BurnEntries
    /\ pc = "burn_send"
    /\ \E o \in {"ok", "raise"}, sig \in Signatures :
         /\ Log("broadcast", o = "ok")
         /\ txSig' = IF o = "ok" THEN sig ELSE txSig
         /\ sent' = Append(sent, [acct |-> idx, anchor |-> txAnchor,
                                  instrs |-> instrs, ok |-> (o = "ok")])
    /\ BurnReturn
    /\ UNCHANGED <<fn, args, out, calls, entry, max_retries, confirmSeen, instrs, confirmSig>>
    /\ UNCHANGED <<nAccounts, idx, balance, fetchCount, fetches, txAnchor, innerRaised>>
    /\ UNCHANGED <<confirmVars, pumpVars>>

\* ----------------------------------------------------------- specification
Next ==
    \/ ConfirmPoll \/ ConfirmExhausted
    \/ PumpSellBalance \/ PumpCurveState \/ PumpAtaAttempt \/ PumpAtaSkipped
    \/ PumpBuild \/ PumpSend \/ PumpConfirm \/ PumpLoopEnd
    \/ MoonshotQuote \/ MoonshotBuild \/ MoonshotSend \/ MoonshotConfirm
    \/ RaydiumPercentage \/ RaydiumFetchPoolKeys
    \/ SendTxBlockhash \/ SendTxPriorityFees \/ SendTxSign \/ SendTxBroadcast
    \/ SendTxConfirm
    \/ SasBlockhash \/ SasSign \/ SasSend \/ SasConfirm
    \/ TradeQuote \/ TradeSwap \/ TradeBlockhash \/ TradeSign \/ TradeSend
    \/ TradeConfirm
    \/ BurnNextAccount \/ BurnLoopEnd \/ BurnBalance \/ BurnBlockhash
    \/ BurnPrepareBurn \/ BurnAssemble \/ BurnSign \/ BurnSend

Spec == Init /\ [][Next]_vars

TypeOK ==
    /\ entry \in Entries
    /\ result \in {"pending", "True", "False", "None", "sig", "raised"}
    /\ max_retries \in 0..MaxRetriesBound
    /\ queries \in 0..QueryCap
    /\ txSig \in Signatures \cup {0}
    /\ slipBps \in SlippageInputs \cup {0}
    /\ ataSent \in 0..1
    /\ (entry \in RaydiumEntries => broadcasts = 0)
    /\ out.ok \in BOOLEAN

\* ========================================================== pure functions
\* Everything an entry point holds while a pure function is applied.
entryVars == <<entry, result, max_retries, confirmSeen,
               confirmVars, pumpVars, txVars, burnVars>>

\* ----------------------------------------------------- meteora_dlmm/utils
\* helpers.py, class BN: the special methods the class defines.
BNOperators == {"__init__", "__add__", "__sub__", "__mul__", "__floordiv__",
                "__mod__", "__neg__", "__int__", "__repr__"}

BN(n) == [type |-> "BN", value |-> n]

MAX_BIN_ARRAY_SIZE == BN(70)

\* Python's divmod(a, b) for an int a: int.__divmod__ answers only for an int
\* b; for any other b the interpreter asks b for __rdivmod__ and raises
\* TypeError when the class has none.
PyDivmod(a, b) ==
    IF b.type = "int"
      THEN IF b.value = 0 THEN Raised
           ELSE IF b.value > 0
             THEN Returned(<<a \div b.value, a % b.value>>)
             ELSE Returned(<<(-a) \div (-b.value), -((-a) % (-b.value))>>)
      ELSE IF "__rdivmod__" \in BNOperators
             THEN Returned(<<a \div b.value, a % b.value>>)
             ELSE Raised

bin_id_to_bin_array_index(bin_id) ==
    LET dm == PyDivmod(bin_id, MAX_BIN_ARRAY_SIZE) IN
    IF ~dm.ok THEN Raised
    ELSE LET div == dm.val[1]
             mod == dm.val[2]
         IN Returned(IF bin_id < 0 /\ mod # 0 THEN div - 1 ELSE div)

\* bin_step and fee_bps arrive as ints (create_customizable_permissionless_lb_pair
\* passes its int parameters on), so `/` is float division: it raises
\* ZeroDivisionError for bin_step = 0, and the quotient differs from its
\* int() exactly when the division leaves a remainder.
compute_base_factor_from_fee_bps(bin_step, fee_bps) ==
    IF bin_step = 0 THEN Raised
    ELSE LET product == fee_bps * 10000
             computed_base_factor_floor == product \div bin_step
             fraction == product % bin_step
         IN IF fraction # 0
              THEN IF computed_base_factor_floor >= 65535 THEN Raised
                   ELSE IF computed_base_factor_floor = 0 THEN Raised
                   ELSE IF fraction # 0 THEN Raised
                   ELSE Returned(computed_base_factor_floor)
              ELSE Returned(computed_base_factor_floor)

\* Public keys are byte strings; KeyLen bytes of 0..MaxByte stand for the 32
\* bytes of 0..255.
KeyLen == 2
MaxByte == 1
Keys == [1..KeyLen -> 0..MaxByte]

ILM_BASE == [i \in 1..KeyLen |-> IF i = 1 THEN 1 ELSE 0]

\* bytes(a) > bytes(b): lexicographic order of the byte strings.
BytesGreater(a, b) ==
    \E i \in 1..KeyLen :
        /\ \A j \in 1..(i - 1) : a[j] = b[j]
        /\ a[i] > b[i]

sort_token_mints_unsorted(token_x, token_y) == <<token_x, token_y>>

sort_token_mints(token_x, token_y) ==
    IF BytesGreater(token_x, token_y) THEN <<token_y, token_x>>
                                      ELSE <<token_x, token_y>>

RECURSIVE Concat(_)
Concat(seqs) == IF seqs = <<>> THEN <<>> ELSE Head(seqs) \o Concat(Tail(seqs))

RECURSIVE ByteSum(_)
ByteSum(bs) == IF bs = <<>> THEN 0 ELSE Head(bs) + ByteSum(Tail(bs))

\* PublicKey.find_program_address: the bump runs down from 255 until the
\* hash of (seeds, bump, program id) is off the curve; the hash stands for
\* itself as its preimage and the curve test is a fixed function of it.
OnCurve(preimage) == ByteSum(preimage) % 2 = 0

RECURSIVE FindBump(_, _, _)
FindBump(seeds, program_id, bump) ==
    IF bump < 0 THEN Raised
    ELSE LET preimage == Concat(seeds) \o <<bump>> \o program_id IN
         IF OnCurve(preimage) THEN FindBump(seeds, program_id, bump - 1)
         ELSE Returned(<<preimage, bump>>)

find_program_address(seeds, program_id) == FindBump(seeds, program_id, 255)

\* seeds = [bytes(ILM_BASE), bytes(min_key), bytes(max_key)]
lb_pair_seeds(token_x, token_y) ==
    LET sorted == sort_token_mints(token_x, token_y)
        min_key == sorted[1]
        max_key == sorted[2]
    IN <<ILM_BASE, min_key, max_key>>

derive_customizable_permissionless_lb_pair(token_x, token_y, program_id) ==
    find_program_address(lb_pair_seeds(token_x, token_y), program_id)

\* --------------------------------------------------------- raydium/utils
\* Amounts are counted in units of 10^-9, the precision of round(x, 9); the
\* fee is counted in 1/10000 (swap_fee = 0.25 percent is 25).
RECURSIVE GCD(_, _)
GCD(a, b) == IF b = 0 THEN a ELSE GCD(b, a % b)

\* <<q, r>> with a * b = q * c + r and 0 <= r < c, for a, b >= 0 and c > 0,
\* by halving b so that no intermediate value exceeds 3 * c + a.
RECURSIVE MulDivQR(_, _, _)
MulDivQR(a, b, c) ==
    IF b = 0 THEN <<0, 0>>
    ELSE LET h == MulDivQR(a, b \div 2, c)
             odd == b % 2
             r == 2 * h[2] + odd * (a % c)
         IN <<2 * h[1] + odd * (a \div c) + r \div c, r % c>>

\* int(x) of a quotient n / d with d > 0: truncation toward zero.
Trunc(n, d) == IF n >= 0 THEN n \div d ELSE -((-n) \div d)

\* round(x, 9) of q + r / c: the nearest unit, an exact tie to the even one.
RoundNearest(qr, c) ==
    qr[1] + (IF 2 * qr[2] > c \/ (2 * qr[2] = c /\ qr[1] % 2 = 1) THEN 1 ELSE 0)

\* amount - amount * (swap_fee / 100), as a fraction <<n, d>> in lowest terms.
EffectiveInputNoFee(amount, feeBps) == <<amount, 1>>

EffectiveInput(amount, feeBps) ==
    LET n == amount * (10000 - feeBps)
        g == GCD(n, 10000)
    IN <<n \div g, 10000 \div g>>

\* reserve_out - (reserve_out * reserve_in) / (reserve_in + effective input),
\* rounded: with effective input n / d the difference is
\* reserve_out * n / (reserve_in * d + n).  The division raises
\* ZeroDivisionError when reserve_in + effective input is zero.
ConstantProductOut(amount, reserve_in, reserve_out, feeBps) ==
    LET eff == EffectiveInput(amount, feeBps)
        den == reserve_in * eff[2] + eff[1]
    IN IF den = 0 THEN Raised
       ELSE Returned(RoundNearest(MulDivQR(reserve_out, eff[1], den), den))

sol_for_tokens(spend_sol_amount, base_vault_balance, quote_vault_balance, feeBps) ==
    ConstantProductOut(spend_sol_amount, quote_vault_balance, base_vault_balance, feeBps)

tokens_for_sol(sell_token_amount, base_vault_balance, quote_vault_balance, feeBps) ==
    ConstantProductOut(sell_token_amount, base_vault_balance, quote_vault_balance, feeBps)

\* use_raydium.py: minimum_amount_out = int(amount_out * (1 - slippage / 100)
\* * 10**decimals), slippage in percent, in the units of amount_out.
minimum_amount_out(amount_out, slippage) == Trunc(amount_out * (100 - slippage), 100)

\* use_pumpfun.py, sell_token: the balance valued at the curve price, in
\* lamports, is token_balance * virtual_sol_reserves / virtual_token_reserves;
\* min_sol_output = int(that * (1 - slippage) * LAMPORTS_PER_SOL / 10^9).
min_sol_output(token_balance, virtual_sol_reserves, virtual_token_reserves, slippageBps) ==
    IF virtual_token_reserves <= 0 \/ virtual_sol_reserves <= 0 THEN Raised
    ELSE Returned(Trunc(token_balance * virtual_sol_reserves * (10000 - slippageBps),
                        virtual_token_reserves * 10000))

\* use_pumpfun.py, buy_token: token_amount = amount / token_price_sol with
\* the price (virtual_sol_reserves / 10^9) / (virtual_token_reserves / 10^6);
\* the instruction carries int(token_amount * 10**6).  For a spend of
\* amount_lamports that is amount_lamports * virtual_token_reserves /
\* virtual_sol_reserves token base units.
buy_token_amount(amount_lamports, virtual_sol_reserves, virtual_token_reserves) ==
    IF virtual_token_reserves <= 0 \/ virtual_sol_reserves <= 0 THEN Raised
    ELSE Returned(Trunc(amount_lamports * virtual_token_reserves, virtual_sol_reserves))

\* ------------------------------------------------- instruction payloads
\* struct.pack("<Q", d) of the operation discriminators: 16927863322537952870
\* (Pump.fun buy, Moonshot buy) and 12502976635542562355 (Pump.fun sell,
\* Moonshot sell).
BUY_DISCRIMINATOR == <<102, 6, 61, 18, 1, 218, 235, 234>>
SELL_DISCRIMINATOR == <<51, 230, 133, 164, 1, 127, 131, 173>>

Operations == {"pump_buy", "pump_sell", "moonshot_buy", "moonshot_sell"}

Discriminator(op) ==
    IF op \in {"pump_buy", "moonshot_buy"} THEN BUY_DISCRIMINATOR
                                           ELSE SELL_DISCRIMINATOR

\* The numeric arguments in the order the code packs them: Pump.fun buy
\* (token amount, max_amount_lamports), Pump.fun sell (amount,
\* min_sol_output), Moonshot (amount, collateral_amount, slippage_bps).
FieldCount(op) == IF op \in {"pump_buy", "pump_sell"} THEN 2 ELSE 3

\* The k low bytes of n, least significant first.
RECURSIVE LittleEndian(_, _)
LittleEndian(n, k) == IF k = 0 THEN <<>> ELSE <<n % 256>> \o LittleEndian(n \div 256, k - 1)

\* What is left of n above its k low bytes.
RECURSIVE HighPart(_, _)
HighPart(n, k) == IF k = 0 THEN n ELSE HighPart(n \div 256, k - 1)

\* struct.pack("<Q", n): struct.error for a negative n or one of more than
\* 8 bytes.
PackQBigEndian(n) ==
    IF n < 0 \/ HighPart(n, 8) # 0 THEN Raised
    ELSE Returned([i \in 1..8 |-> LittleEndian(n, 8)[9 - i]])

PackQ(n) ==
    IF n < 0 \/ HighPart(n, 8) # 0 THEN Raised ELSE Returned(LittleEndian(n, 8))

\* struct.unpack("<Q", field)[0]; -1 stands for a value of more than 31 bits.
UnpackQ(field) ==
    IF field[4] >= 128 \/ \E i \in 5..8 : field[i] # 0 THEN -1
    ELSE field[1] + 256 * (field[2] + 256 * (field[3] + 256 * field[4]))

\* data = discriminator + struct.pack("<Q", a) + struct.pack("<Q", b) ...
RECURSIVE PackAll(_)
PackAll(values) ==
    IF values = <<>> THEN Returned(<<>>)
    ELSE LET first == PackQ(Head(values))
             rest == PackAll(Tail(values))
         IN IF first.ok /\ rest.ok THEN Returned(first.val \o rest.val) ELSE Raised

instruction_data(op, values) ==
    LET packed == PackAll(values) IN
    IF packed.ok THEN Returned(Discriminator(op) \o packed.val) ELSE Raised

\* ------------------------------------------------- applying the functions
MaxBinId == 72
MaxBinStep == 3
MaxSpend == 5
MaxFeeBps == 7
MaxAmount == 4
MaxReserve == 4

\* swap_fee: the default 0.25 percent, and 100 percent.
FeeInputs == {25, 10000}

\* `slippage` of RaydiumManager.buy_with_raydium / sell_with_raydium, in
\* percent (an int; no statement of either function restricts it).
RaydiumSlippages == {-50, 0, 5, 100, 150}

\* Reserves 1,000,000 (input side) and 2,000,000 (output side), input 10,000,
\* fee 25 basis points.
ExampleBuy == <<10000, 2000000, 1000000, 25>>
ExampleSell == <<10000, 1000000, 2000000, 25>>

\* Values of a numeric argument: unpackable (-1), 0, one byte, two bytes,
\* three bytes, and the largest 31-bit value.
FieldValues == {-1, 0, 255, 256, 70000, 2147483647}

PayloadInputs ==
    {<<op, v>> : op \in Operations, v \in [1..2 -> FieldValues] \cup [1..3 -> FieldValues]}

QuoteGrid == (0..MaxAmount) \X (0..MaxReserve) \X (0..MaxReserve) \X FeeInputs

\* A ledger script: the answers to the successive get_transaction calls.
MaxResponses == 3
ResponseScripts == [1..MaxResponses -> Responses]

\* confirm_txn run against a script: the value returned and the number of
\* get_transaction calls made ("polling" when the script ends first).
RECURSIVE ConfirmRun(_, _, _, _)
ConfirmRun(retriesNow, maxr, script, made) ==
    IF ~(retriesNow < maxr) THEN <<ExhaustedResult, made>>
    ELSE IF script = <<>> THEN <<"polling", made>>
    ELSE LET branch == OnResponse(Head(script)) IN
         CASE branch = "return_true"  -> <<"True", made + 1>>
           [] branch = "return_false" -> <<"False", made + 1>>
           [] branch = "retry" -> ConfirmRun(retriesNow + 1, maxr, Tail(script), made + 1)
           [] OTHER            -> ConfirmRun(retriesNow, maxr, Tail(script), made + 1)

confirm_txn(e, maxr, script) == Returned(ConfirmRun(InitialRetries(e), maxr, script, 0))

Functions == {"bin_id_to_bin_array_index", "confirm_txn",
              "compute_base_factor_from_fee_bps", "buy_token_amount",
              "instruction_data",
              "derive_customizable_permissionless_lb_pair",
              "sol_for_tokens", "tokens_for_sol", "min_sol_output"}

\* The quote arguments range over the grid and the worked example; on all of
\* them, and on the min_sol_output arguments below, the float arithmetic of
\* the source and the exact arithmetic of the operators give the same unit.
Inputs(f) ==
    CASE f = "bin_id_to_bin_array_index" -> {<<b>> : b \in (-MaxBinId)..MaxBinId}
      [] f = "derive_customizable_permissionless_lb_pair" -> Keys \X Keys \X Keys
      [] f = "compute_base_factor_from_fee_bps" -> (0..MaxBinStep) \X (0..MaxFeeBps)
      [] f = "buy_token_amount" -> (1..MaxSpend) \X {10, 20} \X {1000, 3000}
      [] f = "instruction_data" ->
             {x \in PayloadInputs : Len(x[2]) = FieldCount(x[1])}
      [] f = "confirm_txn" -> ConfirmEntries \X (0..MaxRetriesBound) \X ResponseScripts
      [] f = "sol_for_tokens" -> QuoteGrid \cup {ExampleBuy}
      [] f = "tokens_for_sol" -> QuoteGrid \cup {ExampleSell}
      [] f = "min_sol_output" -> {1000, 2000} \X {0, 20, 40} \X {1000, 3000}
                                   \X SlippageInputs

InitFn ==
    /\ fn \in Functions
    /\ args \in Inputs(fn)
    /\ out = NoOutcome
    /\ calls = <<>>
    /\ pc = "call"
    /\ entry = "none"
    /\ result = "pending"
    /\ max_retries = 0
    /\ retries = 0
    /\ queries = 0
    /\ sleeps = 0
    /\ firstRecord = "none"
    /\ afterRecord = 0
    /\ attempt = 0
    /\ slipBps = 0
    /\ packable = TRUE
    /\ broadcasts = 0
    /\ accepted = 0
    /\ lateBroadcasts = 0
    /\ ataSent = 0
    /\ confirmSeen = "none"
    /\ waits = <<>>
    /\ netlog = <<>>
    /\ succeeded = {}
    /\ instrs = <<>>
    /\ txSig = 0
    /\ confirmSig = 0
    /\ nAccounts = 0
    /\ idx = 0
    /\ balance = 0
    /\ fetchCount = 0
    /\ fetches = <<>>
    /\ txAnchor = 0
    /\ sent = <<>>
    /\ innerRaised = {}

\* The call returns or raises.
Finish(f, a, o) ==
    /\ fn' = f
    /\ args' = a
    /\ out' = o
    /\ calls' = Append(calls, [fn |-> f, args |-> a, out |-> o])
    /\ pc' = "returned"
    /\ UNCHANGED entryVars

\* The caller makes another call.
CallNext(f, a) ==
    /\ fn' = f
    /\ args' = a
    /\ pc' = "call"
    /\ UNCHANGED <<out, calls>>
    /\ UNCHANGED entryVars

BinIndexCall ==
    /\ fn = "bin_id_to_bin_array_index"
    /\ pc = "call"
    /\ Finish(fn, args, bin_id_to_bin_array_index(args[1]))

\* The index of the next bin id is asked for.
BinIndexNext ==
    /\ fn = "bin_id_to_bin_array_index"
    /\ pc = "returned"
    /\ Len(calls) = 1
    /\ CallNext(fn, <<args[1] + 1>>)

BaseFactorCall ==
    /\ fn = "compute_base_factor_from_fee_bps"
    /\ pc = "call"
    /\ Finish(fn, args, compute_base_factor_from_fee_bps(args[1], args[2]))

DeriveCall ==
    /\ fn = "derive_customizable_permissionless_lb_pair"
    /\ pc = "call"
    /\ Finish(fn, args,
              derive_customizable_permissionless_lb_pair(args[1], args[2], args[3]))

\* The same pair requested with the two mints in the other order.
DeriveSwapped ==
    /\ fn = "derive_customizable_permissionless_lb_pair"
    /\ pc = "returned"
    /\ Len(calls) = 1
    /\ CallNext(fn, <<args[2], args[1], args[3]>>)

ConfirmTxnCall ==
    /\ fn = "confirm_txn"
    /\ pc = "call"
    /\ Finish(fn, args, confirm_txn(args[1], args[2], args[3]))

\* The other module's confirm_txn, with the same budget and the same script.
ConfirmTxnOther ==
    /\ fn = "confirm_txn"
    /\ pc = "returned"
    /\ Len(calls) = 1
    /\ CallNext(fn, <<CHOOSE e \in ConfirmEntries : e # args[1], args[2], args[3]>>)

SolForTokensCall ==
    /\ fn = "sol_for_tokens"
    /\ pc = "call"
    /\ Finish(fn, args, sol_for_tokens(args[1], args[2], args[3], args[4]))

TokensForSolCall ==
    /\ fn = "tokens_for_sol"
    /\ pc = "call"
    /\ Finish(fn, args, tokens_for_sol(args[1], args[2], args[3], args[4]))

\* The tokens just quoted are sold back against the same reserves.
SellBack ==
    /\ fn = "sol_for_tokens"
    /\ pc = "returned"
    /\ Len(calls) = 1
    /\ out.ok
    /\ CallNext("tokens_for_sol", <<out.val, args[2], args[3], args[4]>>)

\* buy_with_raydium / sell_with_raydium after the quote: the minimum output.
MinimumAmountOutCall ==
    /\ fn \in {"sol_for_tokens", "tokens_for_sol"}
    /\ pc = "returned"
    /\ Len(calls) = 1
    /\ out.ok
    /\ \E slippage \in RaydiumSlippages :
         Finish("minimum_amount_out", <<out.val, slippage>>,
                Returned(minimum_amount_out(out.val, slippage)))

BuyTokenAmountCall ==
    /\ fn = "buy_token_amount"
    /\ pc = "call"
    /\ Finish(fn, args, buy_token_amount(args[1], args[2], args[3]))

InstructionDataCall ==
    /\ fn = "instruction_data"
    /\ pc = "call"
    /\ Finish(fn, args, instruction_data(args[1], args[2]))

MinSolOutputCall ==
    /\ fn = "min_sol_output"
    /\ pc = "call"
    /\ Finish(fn, args, min_sol_output(args[1], args[2], args[3], args[4]))

NextFn ==
    \/ BinIndexCall \/ BinIndexNext \/ BaseFactorCall
    \/ DeriveCall \/ DeriveSwapped
    \/ ConfirmTxnCall \/ ConfirmTxnOther
    \/ SolForTokensCall \/ TokensForSolCall \/ SellBack
    \/ MinimumAmountOutCall \/ MinSolOutputCall \/ BuyTokenAmountCall
    \/ InstructionDataCall

SpecFn == InitFn /\ [][NextFn]_vars

\* ------------------------------------------------------------------ claims
IsPrefix(s, t) == Len(s) <= Len(t) /\ \A i \in 1..Len(s) : s[i] = t[i]

\* C1: when every status query of a confirm_txn call finds no ledger record,
\* the call returns None (timed out), never True or False, and it does so
\* only once the attempt budget is used up.
C1_TimedOutIsNone ==
    (entry \in ConfirmEntries /\ pc = "done" /\ firstRecord = "none")
        => (result = "None" /\ ~(retries < max_retries) /\ sleeps = queries)

C1_Witness ==
    /\ entry \in ConfirmEntries
    /\ pc = "done"
    /\ firstRecord = "none"
    /\ queries >= 2
    /\ result = "None"

\* C2: the first status query that finds a ledger record ends polling: the
\* call has returned True if the recorded err is None and False for any other
\* recorded err, and no query or sleep follows that query.
C2_FirstRecordEndsPolling ==
    (entry \in ConfirmEntries /\ firstRecord # "none")
        => /\ pc = "done"
           /\ result = (IF firstRecord = "ok" THEN "True" ELSE "False")
           /\ afterRecord = 0

\* C3: confirm_txn makes at most max_retries status queries, whatever the
\* ledger answers.
C3_QueriesWithinBudget ==
    entry \in ConfirmEntries => queries <= max_retries

\* C4: within one buy_token / sell_token call no trade transaction is
\* broadcast after a broadcast of that call has been accepted.
C4_SingleShotAfterAccept ==
    entry \in PumpEntries => lateBroadcasts = 0

\* C5: no submission path returns a signature as its result when the
\* confirmation step reported that the transaction executed with an error.
C5_NoSignatureOnExecutionError ==
    (entry \in PumpEntries \cup {"send_tx", "trade"}
       /\ pc = "done" /\ confirmSeen = "err")
        => result # "sig"

\* C6: send_tx runs blockhash fetch, fee instruction, sign, broadcast, confirm
\* in that order, each only after the one before it succeeded, and the
\* confirmation is queried for the signature the broadcast returned.
SendTxPhases == <<"blockhash", "http_fees", "sign", "broadcast", "confirm">>

C6_SendTxPhaseOrder ==
    entry = "send_tx"
        => /\ IsPrefix(netlog, SendTxPhases)
           /\ \A i \in 2..Len(netlog) : netlog[i - 1] \in succeeded
           /\ ("confirm" \in Range(netlog)) => (txSig # 0 /\ confirmSig = txSig)
           /\ ("confirm" \notin Range(netlog)) => confirmSig = 0

C6_Witness ==
    /\ entry = "send_tx"
    /\ pc = "done"
    /\ netlog = SendTxPhases
    /\ result = "sig"

\* C7: in send_tx, sign_and_send_transaction and burn_and_close_account the
\* request made immediately before signing is the blockhash fetch.
C7_AnchorFetchedLastBeforeSigning ==
    entry \in {"send_tx", "sign_and_send_transaction"} \cup BurnEntries
        => \A i \in 1..Len(netlog) :
             netlog[i] = "sign" => (i > 1 /\ netlog[i - 1] = "blockhash")

\* C8: in a transaction that send_tx or burn_and_close_account has assembled
\* and is signing, no priority / compute-budget instruction comes after a
\* trade instruction (swap, burn, close).
C8_PriorityBeforeTrade ==
    (entry \in {"send_tx"} \cup BurnEntries /\ "sign" \in Range(netlog))
        => \A i, j \in 1..Len(instrs) :
             (i < j /\ instrs[i].kind \in {"trade", "burn", "close"})
                 => instrs[j].kind # "priority"

\* C9: every transaction process_multiple_accounts broadcasts carries a
\* blockhash fetched while its own account was processed and after every
\* earlier broadcast, and no fetched blockhash is on two broadcasts.
C9_FreshAnchorPerAccount ==
    entry \in BurnEntries
        => \A k \in 1..Len(sent) :
             /\ sent[k].anchor \in 1..Len(fetches)
             /\ fetches[sent[k].anchor].owner = sent[k].acct
             /\ fetches[sent[k].anchor].after = k - 1
             /\ \A j \in 1..Len(sent) : j # k => sent[j].anchor # sent[k].anchor

C9_Witness ==
    /\ entry \in BurnEntries
    /\ Len(sent) = 2
    /\ sent[1].acct = 1
    /\ sent[2].acct = 2
    /\ sent[1].ok

\* C10: no submission entry point raises for an anchor-fetch, broadcast or
\* confirmation failure.
C10_NoEntryPointRaises ==
    /\ entry \in {"send_tx", "sign_and_send_transaction"} => result # "raised"
    /\ entry \in BurnEntries => innerRaised = {}

\* C11: in buy_token / sell_token a payload that cannot be packed (an amount
\* outside the unsigned 64-bit range) is surfaced on the first attempt: no
\* backoff wait of the trade loop follows it.
C11_UnpackableNotRetried ==
    (entry \in PumpEntries /\ ~packable)
        => \A i \in 1..Len(waits) : waits[i].loop # "trade"

\* C18: a buy_token / sell_token call whose slippage is 100 % or more
\* (slippage >= 1.0) broadcasts no trade transaction.
C18_FullSlippageNeverBroadcast ==
    (entry \in PumpEntries /\ slipBps >= 10000) => broadcasts = 0

\* C12: bin_id_to_bin_array_index(bin_id) returns floor(bin_id / 70) for
\* every integer bin id, negative ones included (-1 maps to -1).
C12_BinIndexIsFloor ==
    (fn = "bin_id_to_bin_array_index" /\ pc = "returned")
        => (out.ok /\ out.val = args[1] \div 70)

\* C13: derive_customizable_permissionless_lb_pair(x, y, program) and
\* derive_customizable_permissionless_lb_pair(y, x, program) build the same
\* seed list (base, smaller mint, larger mint) and return the same address
\* and bump.
C13_MintOrderIrrelevant ==
    (fn = "derive_customizable_permissionless_lb_pair" /\ Len(calls) = 2)
        => LET first == calls[1].args
               second == calls[2].args
               seeds == lb_pair_seeds(first[1], first[2])
           IN /\ second = <<first[2], first[1], first[3]>>
              /\ seeds = lb_pair_seeds(second[1], second[2])
              /\ seeds[1] = ILM_BASE
              /\ {seeds[2], seeds[3]} = {first[1], first[2]}
              /\ ~BytesGreater(seeds[2], seeds[3])
              /\ calls[1].out.ok
              /\ calls[1].out = calls[2].out

C13_Witness ==
    /\ fn = "derive_customizable_permissionless_lb_pair"
    /\ Len(calls) = 2
    /\ BytesGreater(calls[1].args[1], calls[1].args[2])
    /\ calls[2].args[1] = calls[1].args[2]
    /\ calls[1].out = calls[2].out

C15_OutputStrictlyInside ==
    (fn \in {"sol_for_tokens", "tokens_for_sol"} /\ pc = "returned"
       /\ args[1] > 0 /\ args[2] > 0 /\ args[3] > 0 /\ args[4] < 10000)
        => /\ out.ok
           /\ out.val > 0
           /\ out.val < (IF fn = "sol_for_tokens" THEN args[2] ELSE args[3])

\* C16: for positive reserves B, Q and a positive input s, the sell quote
\* tokens_for_sol(sol_for_tokens(s, B, Q), B, Q) is strictly less than s.
C16_RoundTripLoses ==
    (fn = "tokens_for_sol" /\ pc = "returned" /\ Len(calls) = 2
       /\ calls[1].args[1] > 0 /\ calls[1].args[2] > 0 /\ calls[1].args[3] > 0
       /\ calls[1].args[4] = 25)
        => (out.ok /\ out.val < calls[1].args[1])

\* C17: whatever the slippage argument, the minimum output computed for the
\* instruction (Raydium minimum_amount_out, Pump.fun min_sol_output) is at
\* most the raw quoted output in the same units.
C17_MinimumAtMostRaw ==
    /\ (fn = "minimum_amount_out" /\ pc = "returned") => out.val <= args[1]
    /\ (fn = "min_sol_output" /\ pc = "returned" /\ out.ok)
          => out.val * args[3] <= args[1] * args[2]

\* C19: sol_for_tokens and tokens_for_sol fail when either reserve is zero
\* or negative; they return no quote for it.
C19_BadReserveFails ==
    (fn \in {"sol_for_tokens", "tokens_for_sol"} /\ pc = "returned"
       /\ (args[2] <= 0 \/ args[3] <= 0))
        => ~out.ok

\* C20: a quote whose effective input (the input less the fee) is zero or
\* negative fails; it is not returned as a quote of zero.
C20_NoEffectiveInputFails ==
    (fn \in {"sol_for_tokens", "tokens_for_sol"} /\ pc = "returned"
       /\ EffectiveInput(args[1], args[4])[1] <= 0)
        => ~out.ok

TradeWaits == SelectSeq(waits, LAMBDA w : w.loop = "trade")

BurnsOf(tx) == {i \in 1..Len(tx) : tx[i].kind = "burn"}

\* C26: burn_and_close_account broadcasts nothing when the balance read or
\* the preparation of the burn instruction failed; a transaction it does
\* broadcast holds a burn, of exactly the balance read, if and only if that
\* balance is above 0, and its last instruction is the close-account one.
C26_BurnThenClose ==
    entry \in BurnEntries
        => /\ "broadcast" \in Range(netlog)
                => /\ "balance" \in succeeded
                   /\ balance > 0 => "account_info" \in succeeded
           /\ \A k \in 1..Len(sent) :
                LET tx == sent[k].instrs IN
                /\ tx[Len(tx)].kind = "close"
                /\ \A i \in 1..(Len(tx) - 1) : tx[i].kind # "close"
                /\ sent[k].acct = idx
                     => /\ (BurnsOf(tx) # {}) <=> (balance > 0)
                        /\ Cardinality(BurnsOf(tx)) <= 1
                        /\ \A i \in BurnsOf(tx) : tx[i].amount = balance

C26_Witness ==
    /\ entry \in BurnEntries
    /\ Len(sent) = 2
    /\ sent[2].acct = idx
    /\ balance = 2
    /\ sent[2].instrs[1] = Ix("burn", 2)
    /\ BurnsOf(sent[1].instrs) = {}

AccountsInOrder ==
    /\ idx <= nAccounts
    /\ \A k \in 1..Len(sent) : sent[k].acct \in 1..idx
    /\ \A j, k \in 1..Len(sent) : j < k => sent[j].acct < sent[k].acct
    /\ \A a \in innerRaised : a \in 1..idx

NextAccountOnly ==
    entry \in BurnEntries
        => /\ idx' = idx \/ (idx' = idx + 1 /\ pc = "burn_loop")
           /\ (pc' = "done" /\ pc # "done") => idx = nAccounts

\* C30: process_multiple_accounts takes the accounts of the list one by one
\* in list order, each exactly once, and ends only after the last one: no
\* failure in one account's processing skips, repeats or reorders a later one.
C30_EveryAccountOnceInOrder ==
    /\ [](entry \in BurnEntries => AccountsInOrder)
    /\ [][NextAccountOnly]_vars

C30_Witness ==
    /\ entry \in BurnEntries
    /\ pc = "done"
    /\ nAccounts = 2
    /\ idx = 2
    /\ 1 \in innerRaised
    /\ Len(sent) = 1
    /\ sent[1].acct = 2

\* C29: the Raydium and the Moonshot confirm_txn, given the same max_retries
\* and the same sequence of ledger responses, return the same outcome after
\* the same number of status queries.
C29_ConfirmTxnEquivalent ==
    (fn = "confirm_txn" /\ Len(calls) = 2)
        => calls[1].out = calls[2].out

\* C28: bin_id_to_bin_array_index is monotone non-decreasing in bin_id (the
\* index of bin_id + 1 is the index of bin_id or the next one), and bin ids
\* 70 apart lie in consecutive arrays, so that each index is the image of
\* exactly 70 consecutive bin ids.
C28_BinIndexMonotone ==
    (fn = "bin_id_to_bin_array_index" /\ Len(calls) = 2)
        => /\ calls[1].out.ok
           /\ calls[2].out.ok
           /\ calls[2].out.val \in {calls[1].out.val, calls[1].out.val + 1}
           /\ bin_id_to_bin_array_index(calls[1].args[1] + 70)
                = Returned(calls[1].out.val + 1)

\* C27: compute_base_factor_from_fee_bps(bin_step, fee_bps) raises when
\* fee_bps * 10000 / bin_step is 65535 or more, is 0, or is not an integer;
\* otherwise it returns exactly fee_bps * 10000 / bin_step.
C27_BaseFactorChecked ==
    (fn = "compute_base_factor_from_fee_bps" /\ pc = "returned" /\ args[1] > 0)
        => LET product == args[2] * 10000 IN
           IF \/ product \div args[1] >= 65535
              \/ product = 0
              \/ product % args[1] # 0
             THEN ~out.ok
             ELSE out = Returned(product \div args[1])

\* C21: the token amount buy_token packs for a spend s is the constant-product
\* output on the virtual reserves, virtual_token_reserves -
\* virtual_token_reserves * virtual_sol_reserves / (virtual_sol_reserves + s)
\* (to within the rounding of the last base unit).
C21_BuyAmountOnCurve ==
    (fn = "buy_token_amount" /\ pc = "returned")
        => LET s == args[1]
               vsr == args[2]
               vtr == args[3]
               onCurve == (vtr * s) \div (vsr + s)
           IN /\ out.ok
              /\ out.val \in {onCurve, onCurve + 1}

\* C22: every payload built for Pump.fun buy / sell and Moonshot buy / sell
\* is the 8-byte little-endian discriminator of the operation followed by
\* each numeric argument as 8 little-endian bytes in the fixed field order
\* (8 * (1 + number of arguments) bytes); decoding it gives back the
\* discriminator and the argument values.
C22_PayloadRoundTrip ==
    (fn = "instruction_data" /\ pc = "returned" /\ out.ok)
        => LET op == args[1]
               values == args[2]
               data == out.val
           IN /\ Len(data) = 8 * (1 + Len(values))
              /\ SubSeq(data, 1, 8) = Discriminator(op)
              /\ \A i \in 1..Len(values) :
                   UnpackQ(SubSeq(data, 8 * i + 1, 8 * i + 8)) = values[i]

C22_Witness ==
    /\ fn = "instruction_data"
    /\ pc = "returned"
    /\ out.ok
    /\ args[1] = "moonshot_sell"
    /\ args[2] = <<2147483647, 256, 70000>>

\* C23: when a numeric argument of the trade instruction cannot be packed,
\* RaydiumManager, MoonshotManager and PumpfunManager end the call without
\* any broadcast.
C23_UnpackableNeverBroadcast ==
    (entry \in PumpEntries \cup MoonshotEntries \cup RaydiumEntries /\ ~packable)
        => (broadcasts = 0 /\ ataSent = 0)

====
